---- MODULE Spec2Model ----
(***************************************************************************)
(* Route optimisation core of SupplyChainRescue AI                         *)
(* (backend/routes/optimize.py), its delay predictor                       *)
(* (backend/ml_models/delay_predictor.py) and the forecast handlers        *)
(* (backend/routes/forecast.py).                                           *)
(*                                                                         *)
(* Units.  Python floats are modelled by integers in thousandths:          *)
(*   coordinates   milli-degrees   (lat 0.5  -> 500)                       *)
(*   distances     metres          (111.195 km -> 111195)                  *)
(*   penalties     tenths          (1.0 -> 10, 0.3 -> 3, 5.0 -> 50)        *)
(*   costs         metres x tenths                                         *)
(*   every number a result reports: thousandths (km, minutes, penalty,     *)
(*                 risk), so round(x, 2) rounds to a multiple of 10        *)
(* A Python dict is a function on its keys; None and {} are both the       *)
(* function with the empty domain (the code only tests their truthiness).  *)
(* An optional value (a missing return value, SQL NULL) is a set holding   *)
(* zero or one element.  The units of the delay predictor are given where  *)
(* it is modelled.                                                         *)
(***************************************************************************)
EXTENDS Integers, Sequences, FiniteSets, TLC

\* ------------------------------------------------------------------ bounds

\* longest destination list of a request
MaxDest == 3
\* how many calls one behaviour makes with the same request
MaxCalls == 2
\* longest closure list given to calculate_route_penalty on its own
MaxClosures == 2
\* longest waypoint list given to calculate_route_risk on its own
MaxNodes == 14
\* how many rows the forecast handler adds to forecast_predictions
MaxPredictions == 2
\* how many forecast requests one process handles
MaxLoads == 3
\* the largest state of the random generator
MaxRng == 63
\* the samples of one training run in the model (2000 in train, line 108)
TrainSamples == 3
\* training runs recorded
MaxRuns == 2
\* requests the application answers
MaxRequests == 5

\* ------------------------------------------------------------- input sets

Pt(la, ln) == [lat |-> la, lng |-> ln]

Origins == {Pt(0, 0), Pt(0, 500)}
DestPoints == {Pt(0, 500), Pt(0, 1000), Pt(1000, 0)}

RECURSIVE SeqsUpTo(_, _)
SeqsUpTo(S, n) ==
    IF n = 0 THEN {<<>>}
    ELSE LET shorter == SeqsUpTo(S, n - 1)
         IN  shorter \cup {Append(s, x) : s \in {t \in shorter : Len(t) = n - 1}, x \in S}

Requests ==
    [origin : Origins,
     destinations : SeqsUpTo(DestPoints, MaxDest),
     avoid_closures : BOOLEAN,
     optimize_for_weather : BOOLEAN]

\* rows of the road_closures table (sql_models.RoadClosure), as far as
\* optimize_route reads them; estimated_end_time {} is NULL.  At time 1 row 1
\* is open-ended, row 2 starts and ends this very moment, row 3 has not
\* started and row 4 has ended
ClosureRows ==
    { [id |-> 1, coordinates |-> <<Pt(0, 500)>>, severity |-> 3,
       start_time |-> 0, estimated_end_time |-> {}],
      [id |-> 2, coordinates |-> <<Pt(5, 505), Pt(1000, 0)>>, severity |-> 2,
       start_time |-> 1, estimated_end_time |-> {1}],
      [id |-> 3, coordinates |-> <<Pt(0, 1000)>>, severity |-> 5,
       start_time |-> 3, estimated_end_time |-> {}],
      [id |-> 4, coordinates |-> <<Pt(0, 1000)>>, severity |-> 1,
       start_time |-> 0, estimated_end_time |-> {0}] }

\* the tables the model starts from: empty, one or two active rows, only
\* inactive rows, all rows
ClosureTables ==
    LET row(n) == CHOOSE r \in ClosureRows : r.id = n
    IN  {{}, {row(1)}, {row(2)}, {row(1), row(2)}, {row(3), row(4)}, ClosureRows}

Times == {1}

ClearWeather ==
    [visibility |-> 10000, wind_speed |-> 3, precipitation |-> 0, temperature |-> 20]
AdverseWeather ==
    [visibility |-> 800, wind_speed |-> 18, precipitation |-> 12, temperature |-> -3]

\* --------------------------------------------------------- python helpers

\* dict.get(key, default)
Get(d, k, default) == IF k \in DOMAIN d THEN d[k] ELSE default

\* truthiness of a dict or a list (None, {} and [] are falsy)
Truthy(d) == DOMAIN d # {}

\* list index from a Python index (negative indexes count from the end)
PyIndex(s, idx) == IF idx < 0 THEN Len(s) + idx + 1 ELSE idx + 1

\* the element list.pop(idx) returns
PopValue(s, idx) == s[PyIndex(s, idx)]

\* a faulty variant of PopRest: drops the first element whatever the index
PopRestHead(s, idx) == Tail(s)

\* the list list.pop(idx) leaves
PopRest(s, idx) ==
    LET k == PyIndex(s, idx)
    IN  [i \in 1..(Len(s) - 1) |-> IF i < k THEN s[i] ELSE s[i + 1]]

\* round(x, 2) on thousandths: to the nearest multiple of 10, halves to even
Round2(x) ==
    LET r == x % 10
        lo == x - r
    IN  IF r < 5 THEN lo
        ELSE IF r > 5 THEN lo + 10
        ELSE IF (lo \div 10) % 2 = 0 THEN lo ELSE lo + 10

Min(a, b) == IF a <= b THEN a ELSE b

Max(a, b) == IF a >= b THEN a ELSE b

\* float('inf') is the empty set, a finite float x is {x}
Infinity == {}

\* a < b for a finite a and b finite or float('inf')
LessThan(a, b) == \A x \in b : a < x

\* ---------------------------------------------------- calculate_distance

\* calculate_distance evaluated by the source's haversine formula
\* (R = 6371 km) on the model's points, in metres
calculate_distance(point1, point2) ==
    LET a == <<point1.lat, point1.lng>>
        b == <<point2.lat, point2.lng>>
    IN  CASE a = b -> 0
          [] {a, b} = {<<0, 0>>, <<0, 500>>} -> 55597
          [] {a, b} = {<<0, 0>>, <<0, 1000>>} -> 111195
          [] {a, b} = {<<0, 0>>, <<1000, 0>>} -> 111195
          [] {a, b} = {<<0, 500>>, <<0, 1000>>} -> 55597
          [] {a, b} = {<<0, 500>>, <<1000, 0>>} -> 124318
          [] {a, b} = {<<0, 1000>>, <<1000, 0>>} -> 157249

\* ------------------------------------------------ calculate_route_penalty

Abs(x) == IF x < 0 THEN -x ELSE x

\* a faulty variant of WeatherPart: the four tests chained with elif
WeatherPartFirstOnly(weather_data) ==
    IF ~Truthy(weather_data) THEN 0
    ELSE IF Get(weather_data, "visibility", 10000) < 5000 THEN 5
    ELSE IF Get(weather_data, "wind_speed", 0) > 15 THEN 3
    ELSE IF Get(weather_data, "precipitation", 0) > 10 THEN 8
    ELSE IF Get(weather_data, "temperature", 20) < 0 THEN 4
    ELSE 0

\* the weather part, lines 82-97: 0 for None or {}
WeatherPart(weather_data) ==
    IF ~Truthy(weather_data) THEN 0
    ELSE (IF Get(weather_data, "visibility", 10000) < 5000 THEN 5 ELSE 0)
       + (IF Get(weather_data, "wind_speed", 0) > 15 THEN 3 ELSE 0)
       + (IF Get(weather_data, "precipitation", 0) > 10 THEN 8 ELSE 0)
       + (IF Get(weather_data, "temperature", 20) < 0 THEN 4 ELSE 0)

\* the inner loop over one closure's coordinates, lines 103-109: +5.0 at the
\* first coordinate within 0.01 degrees of the point, then break
ClosureHit(closure, point) ==
    LET closure_coords == Get(closure, "coordinates", <<>>)
    IN  IF \E i \in 1..Len(closure_coords) :
               /\ Abs(closure_coords[i].lat - point.lat) < 10
               /\ Abs(closure_coords[i].lng - point.lng) < 10
        THEN 50 ELSE 0

\* the outer loop over the closure records, lines 100-101
RECURSIVE ClosurePart(_, _)
ClosurePart(road_closures, point) ==
    IF road_closures = <<>> THEN 0
    ELSE ClosureHit(Head(road_closures), point) + ClosurePart(Tail(road_closures), point)

calculate_route_penalty(point, weather_data, road_closures) ==
    10 + WeatherPart(weather_data) + ClosurePart(road_closures, point)

\* ---------------------------------------------------------------- state

VARIABLES
    pc,                       \* "idle", "loop" (inside optimize_simple_route), "done"
    caller,                   \* "handler" (optimize_route) or "direct"
    request,                  \* the request, or the arguments of a direct call
    db_closures,              \* rows of the road_closures table
    now,                      \* func.now() of the database
    weather,                  \* the weather snapshot the weather provider holds
    db_routes,                \* route_id of every row of optimization_routes
    calls,                    \* calls begun so far
    history,                  \* earlier completed calls of optimize_simple_route
    road_closures,            \* optimize_simple_route's road_closures argument
    current_point, remaining_destinations, route, total_distance, total_penalty,
    closure_avoidance_count, weather_penalty_total,
    best,                     \* best_cost, best_idx, best_raw_distance, best_penalty
    route_result,             \* what optimize_simple_route returned
    response,                 \* what optimize_route answered
    pen_pc, pen_args, pen_result,  \* a call of calculate_route_penalty on its own
    risk_pc, risk_args, risk_result,  \* a call of calculate_route_risk on its own
    delay_pc, delay_args, delay_result,  \* a call of _calculate_delay_from_factors
    predictor,                \* a DelayPredictor: weights, bias, feature_names
    artifact,                 \* the file at model_path
    disk_writable,            \* whether model_path can be written
    p_pc, p_features, p_result,  \* the last operation on the predictor
    fc_pc,                    \* position inside a forecast handler
    fc_handler,               \* "predict" or "health"
    fc_trace,                 \* what the handler has done so far
    fc_response,              \* what the forecast handler answered
    fc_count,                 \* rows of forecast_predictions
    fc_stats,                 \* the file the process started with, and how often
                              \* it has run load_model and train since
    rng,                      \* state of the generator behind the random module
    tr_runs,                  \* what each training run so far generated and fitted
    app_pc,                   \* "serving" once the application is up
    app_request,              \* the request the application received last
    app_response,             \* what it answered
    app_count                 \* requests answered so far

envVars == <<db_closures, now, weather>>
loopVars == <<current_point, remaining_destinations, route, total_distance,
              total_penalty, closure_avoidance_count, weather_penalty_total, best>>
routeVars == <<pc, caller, request, envVars, db_routes, calls, history,
               road_closures, loopVars, route_result, response>>
penVars == <<pen_pc, pen_args, pen_result>>
riskVars == <<risk_pc, risk_args, risk_result>>
delayVars == <<delay_pc, delay_args, delay_result>>
objVars == <<predictor, artifact, disk_writable>>
predVars == <<p_pc, p_features, p_result>>
fcVars == <<fc_pc, fc_handler, fc_trace, fc_response, fc_count, fc_stats>>
mlVars == <<delayVars, objVars, predVars, fcVars>>
trainVars == <<rng, tr_runs>>
appVars == <<app_pc, app_request, app_response, app_count>>
restVars == <<trainVars, appVars>>
unitVars == <<penVars, riskVars, mlVars, restVars>>
vars == <<routeVars, unitVars>>

\* ------------------------------------------------- optimize_simple_route

\* lines 143-146
NoBest == [best_cost |-> Infinity, best_idx |-> -1, best_raw_distance |-> 0,
           best_penalty |-> 10]

\* a faulty variant of Candidate: the penalty of the point the truck is at
CandidateAtCurrent(cur, dest, idx, avoid_closures, weather_impact, closures) ==
    LET raw_distance == calculate_distance(cur, dest)
        penalty == IF weather_impact \/ avoid_closures
                   THEN calculate_route_penalty(
                            cur, <<>>, IF avoid_closures THEN closures ELSE <<>>)
                   ELSE 10
    IN  [idx |-> idx, raw_distance |-> raw_distance, penalty |-> penalty,
         total_cost |-> raw_distance * penalty]

\* lines 149-159: raw distance, penalty and cost of one candidate; the weather
\* argument of calculate_route_penalty is None
Candidate(cur, dest, idx, avoid_closures, weather_impact, closures) ==
    LET raw_distance == calculate_distance(cur, dest)
        penalty == IF weather_impact \/ avoid_closures
                   THEN calculate_route_penalty(
                            dest, <<>>, IF avoid_closures THEN closures ELSE <<>>)
                   ELSE 10
    IN  [idx |-> idx, raw_distance |-> raw_distance, penalty |-> penalty,
         total_cost |-> raw_distance * penalty]

\* a faulty variant of Better: a later candidate of equal cost replaces the best
BetterOrEqual(cand, b) == \A x \in b.best_cost : cand.total_cost <= x

\* line 161
Better(cand, b) == LessThan(cand.total_cost, b.best_cost)

\* a faulty variant of Take: the leg's distance is its penalised cost
TakeCost(cand) ==
    [best_cost |-> {cand.total_cost}, best_idx |-> cand.idx,
     best_raw_distance |-> cand.total_cost \div 10, best_penalty |-> cand.penalty]

\* lines 162-165
Take(cand) ==
    [best_cost |-> {cand.total_cost}, best_idx |-> cand.idx,
     best_raw_distance |-> cand.raw_distance, best_penalty |-> cand.penalty]

\* lines 148-165: the scan of the remaining destinations, in list order
RECURSIVE Scan(_, _, _)
Scan(cands, i, b) ==
    IF i > Len(cands) THEN b
    ELSE Scan(cands, i + 1, IF Better(cands[i], b) THEN Take(cands[i]) ELSE b)

BestOf(cur, remaining, avoid_closures, weather_impact, closures) ==
    Scan([i \in 1..Len(remaining) |->
              Candidate(cur, remaining[i], i - 1, avoid_closures, weather_impact, closures)],
         1, NoBest)

\* a faulty variant of InitialDistance: the sum of the call before is kept
StaleDistance == total_distance

\* line 136
InitialDistance == 0

\* a faulty variant of CallerListAfterPop: the pop works on the caller's list
CallerListPopped(destinations, idx) == PopRest(destinations, idx)

\* line 134: remaining_destinations is a copy, so the pop of line 168 leaves
\* the caller's list as it was
CallerListAfterPop(destinations, idx) == destinations

\* round(num / den, 2) for a fraction of thousandths: the nearest multiple of
\* ten thousandths, a half going to the even hundredth
Round2Ratio(num, den) ==
    LET q == num \div (10 * den)
        rest == num - q * 10 * den
    IN  IF 2 * rest < 10 * den THEN q * 10
        ELSE IF 2 * rest > 10 * den THEN q * 10 + 10
        ELSE IF q % 2 = 0 THEN q * 10 ELSE q * 10 + 10

\* lines 181-185, in thousandths of a minute, as a fraction:
\* (d / (50 / (1 + p / n))) * 60  =  d * 60 * (n + p) / (50 * n), and with
\* the penalty p in tenths  d * 3 * (10 * n + p) / (25 * n)
DurationNum(distance, penalty, n) == distance * 3 * (n * 10 + penalty)

DurationDen(n) == 25 * n

\* a faulty variant of EstimatedDuration: the legs are counted, not the
\* waypoints
EstimatedDurationLegs(distance, penalty, n) ==
    Round2Ratio(DurationNum(distance, penalty, n - 1), DurationDen(n - 1))

\* lines 181-185 and round(estimated_duration, 2) of line 190; n is len(route)
EstimatedDuration(distance, penalty, n) ==
    Round2Ratio(DurationNum(distance, penalty, n), DurationDen(n))

\* a faulty variant of SimpleRouteResult: subtracts the number of legs
SimpleRouteResultLegs(nodes, distance, penalty, closures_avoided, weather_total) ==
    [nodes |-> nodes,
     total_distance |-> Round2(distance),
     estimated_duration |-> EstimatedDuration(distance, penalty, Len(nodes)),
     total_penalty |-> Round2((penalty - 10 * (Len(nodes) - 1)) * 100),
     closure_avoided |-> closures_avoided,
     weather_penalty |-> Round2(weather_total * 100),
     algorithm |-> "greedy_nearest_neighbor_with_penalties"]

\* lines 187-196
SimpleRouteResult(nodes, distance, penalty, closures_avoided, weather_total) ==
    [nodes |-> nodes,
     total_distance |-> Round2(distance),
     estimated_duration |-> EstimatedDuration(distance, penalty, Len(nodes)),
     total_penalty |-> Round2((penalty - 10 * Len(nodes)) * 100),
     closure_avoided |-> closures_avoided,
     weather_penalty |-> Round2(weather_total * 100),
     algorithm |-> "greedy_nearest_neighbor_with_penalties"]

\* lines 122-130
TrivialResult(origin) ==
    [nodes |-> <<origin>>, total_distance |-> 0, estimated_duration |-> 0,
     total_penalty |-> 0, closure_avoided |-> 0, weather_penalty |-> 0]

\* lines 132-139
EnterLoop ==
    /\ current_point' = request.origin
    /\ remaining_destinations' = request.destinations
    /\ route' = <<request.origin>>
    /\ total_distance' = InitialDistance
    /\ total_penalty' = 0
    /\ closure_avoidance_count' = 0
    /\ weather_penalty_total' = 0
    /\ best' = NoBest

\* a faulty variant of WeatherPenaltyAfter: no upper limit on the penalty
WeatherPenaltyAfterNoUpper(total, best_penalty) ==
    IF best_penalty > 10 THEN total + (best_penalty - 10) ELSE total

\* lines 176-177: weather_penalty_total after a leg with this penalty
WeatherPenaltyAfter(total, best_penalty) ==
    IF best_penalty > 10 /\ best_penalty <= 20
    THEN total + (best_penalty - 10) ELSE total

\* lines 174-175: closure_avoidance_count after a leg with this penalty
ClosureAvoidanceAfter(count, best_penalty, closures) ==
    IF best_penalty > 20 /\ Truthy(closures) THEN count + 1 ELSE count

\* lines 141-179: one iteration of the while loop
LoopStep ==
    /\ pc = "loop"
    /\ remaining_destinations # <<>>
    /\ LET b == BestOf(current_point, remaining_destinations, request.avoid_closures,
                       request.optimize_for_weather, road_closures)
           next_point == PopValue(remaining_destinations, b.best_idx)
       IN  /\ best' = b
           /\ remaining_destinations' = PopRest(remaining_destinations, b.best_idx)
           /\ request' = [request EXCEPT
                            !.destinations = CallerListAfterPop(@, b.best_idx)]
           /\ route' = Append(route, next_point)
           /\ total_distance' = total_distance + b.best_raw_distance
           /\ total_penalty' = total_penalty + b.best_penalty
           /\ closure_avoidance_count' =
                  ClosureAvoidanceAfter(closure_avoidance_count, b.best_penalty,
                                        road_closures)
           /\ weather_penalty_total' =
                  WeatherPenaltyAfter(weather_penalty_total, b.best_penalty)
           /\ current_point' = next_point
    /\ UNCHANGED <<pc, caller, envVars, db_routes, calls, history, road_closures,
                   route_result, response, unitVars>>

\* ------------------------------------------------------ calculate_route_risk

\* a faulty variant of calculate_route_risk: the length term is not capped
calculate_route_risk_uncapped_length(nodes, avoid_closures, optimize_weather) ==
    LET base_risk == 100 + (IF avoid_closures THEN 200 ELSE 0)
                         + (IF optimize_weather THEN 100 ELSE 0)
        route_length_risk == Len(nodes) * 50
    IN  Min(1000, base_risk + route_length_risk)

\* a faulty variant of calculate_route_risk: neither the length term nor the
\* total is capped
calculate_route_risk_unclamped(nodes, avoid_closures, optimize_weather) ==
    LET base_risk == 100 + (IF avoid_closures THEN 200 ELSE 0)
                         + (IF optimize_weather THEN 100 ELSE 0)
        route_length_risk == Len(nodes) * 50
    IN  base_risk + route_length_risk

\* lines 293-313, in thousandths (round(x, 3) leaves a thousandth as it is)
calculate_route_risk(nodes, avoid_closures, optimize_weather) ==
    LET base_risk == 100 + (IF avoid_closures THEN 200 ELSE 0)
                         + (IF optimize_weather THEN 100 ELSE 0)
        route_length_risk == Min(300, Len(nodes) * 50)
    IN  Min(1000, base_risk + route_length_risk)

\* ------------------------------------------------------------ optimize_route

\* a faulty variant of IsActive: the end time is not looked at
IsActiveStarted(row, t) == row.start_time <= t

\* lines 221-225: the rows the query keeps
IsActive(row, t) ==
    /\ row.start_time <= t
    /\ (row.estimated_end_time = {} \/ \E e \in row.estimated_end_time : e >= t)

\* lines 226-233
ClosureDict(row) ==
    [id |-> row.id, coordinates |-> row.coordinates, severity |-> row.severity,
     description |-> "closure"]

\* the rows of a query as a list, by ascending id
RECURSIVE RowList(_)
RowList(rows) ==
    IF rows = {} THEN <<>>
    ELSE LET first == CHOOSE r \in rows : \A q \in rows : r.id <= q.id
         IN  <<ClosureDict(first)>> \o RowList(rows \ {first})

\* lines 217-233
FetchClosures(req, rows, t) ==
    IF req.avoid_closures THEN RowList({r \in rows : IsActive(r, t)}) ELSE <<>>

\* line 253: f"route_{len(destinations)}_{origin['lat']:.3f}"
RouteId(req) == <<"route", Len(req.destinations), req.origin.lat>>

\* lines 251-264
OptimizationRoute(req, result) ==
    [route_id |-> RouteId(req),
     truck_id |-> "truck_1",
     nodes |-> result.nodes,
     total_distance |-> result.total_distance,
     estimated_duration |-> result.estimated_duration,
     stops |-> [i \in 1..Len(result.nodes) |->
                   [stop_id |-> i, coordinates |-> result.nodes[i],
                    type |-> IF i > 1 THEN "pickup" ELSE "origin"]],
     risk_score |-> calculate_route_risk(result.nodes, req.avoid_closures,
                                         req.optimize_for_weather)]

\* lines 272-283
SuccessResponse(req, result) ==
    [status_code |-> 200, success |-> TRUE,
     message |-> "Route optimized successfully",
     data |-> [optimization |-> OptimizationRoute(req, result),
               algorithm_used |-> result.algorithm,
               processing_stats |->
                   [destinations_processed |-> Len(req.destinations),
                    avoid_closures |-> req.avoid_closures]]]

\* lines 208-212
HandlerReject ==
    /\ pc = "idle"
    /\ Len(request.destinations) = 0
    /\ caller' = "handler"
    /\ response' = {[status_code |-> 400, success |-> FALSE,
                     detail |-> "At least one destination is required"]}
    /\ pc' = "done"
    /\ UNCHANGED <<request, envVars, db_routes, calls, history, road_closures,
                   loopVars, route_result, unitVars>>

\* lines 214-242 and, inside optimize_simple_route, lines 122 and 132-139
HandlerStart ==
    /\ pc = "idle"
    /\ Len(request.destinations) # 0
    /\ caller' = "handler"
    /\ road_closures' = FetchClosures(request, db_closures, now)
    /\ EnterLoop
    /\ pc' = "loop"
    /\ UNCHANGED <<request, envVars, db_routes, calls, history, route_result,
                   response, unitVars>>

\* optimize_simple_route called by other code, which hands it every row of
\* the closure table, active or not: lines 114-139
DirectCall ==
    /\ pc = "idle"
    /\ caller' = "direct"
    /\ road_closures' = RowList(db_closures)
    /\ IF Len(request.destinations) = 0
       THEN /\ route_result' = {TrivialResult(request.origin)}
            /\ pc' = "done"
            /\ UNCHANGED loopVars
       ELSE /\ EnterLoop
            /\ pc' = "loop"
            /\ UNCHANGED route_result
    /\ UNCHANGED <<request, envVars, db_routes, calls, history, response, unitVars>>

\* lines 181-196: the loop has ended and optimize_simple_route returns; in
\* optimize_route lines 244-290 follow: the risk score, the row of
\* optimization_routes (route_id is its primary key, so a second row with the
\* same route_id fails the commit and the handler answers 500) and the answer
Return ==
    /\ pc = "loop"
    /\ remaining_destinations = <<>>
    /\ LET result == SimpleRouteResult(route, total_distance, total_penalty,
                                       closure_avoidance_count, weather_penalty_total)
       IN  /\ route_result' = {result}
           /\ IF caller = "direct"
              THEN UNCHANGED <<response, db_routes>>
              ELSE IF RouteId(request) \in db_routes
              THEN /\ response' = {[status_code |-> 500, success |-> FALSE,
                                    detail |-> "IntegrityError"]}
                   /\ UNCHANGED db_routes
              ELSE /\ response' = {SuccessResponse(request, result)}
                   /\ db_routes' = db_routes \cup {RouteId(request)}
    /\ pc' = "done"
    /\ UNCHANGED <<caller, request, envVars, calls, history, road_closures,
                   loopVars, unitVars>>

\* the client sends the same request again (or the callers calls again with
\* the same arguments); the finished call is remembered for comparison
Repeat ==
    /\ pc = "done"
    /\ calls < MaxCalls
    /\ calls' = calls + 1
    /\ history' = history \o
           [i \in 1..Cardinality(route_result) |->
               [request |-> request, road_closures |-> road_closures,
                result |-> CHOOSE r \in route_result : TRUE]]
    /\ route_result' = {}
    /\ response' = {}
    /\ pc' = "idle"
    /\ UNCHANGED <<caller, request, envVars, db_routes, road_closures, loopVars,
                   unitVars>>

PenIdle ==
    /\ pen_pc = "off"
    /\ pen_args = <<>>
    /\ pen_result = {}

RiskIdle ==
    /\ risk_pc = "off"
    /\ risk_args = <<>>
    /\ risk_result = {}

DelayIdle ==
    /\ delay_pc = "off"
    /\ delay_args = <<>>
    /\ delay_result = {}

\* no DelayPredictor has been constructed
PredictorIdle ==
    /\ predictor = <<>>
    /\ artifact = <<>>
    /\ disk_writable = TRUE
    /\ p_pc = "off"
    /\ p_features = <<>>
    /\ p_result = {}

ForecastIdle ==
    /\ fc_pc = "off"
    /\ fc_handler = "none"
    /\ fc_trace = <<>>
    /\ fc_response = {}
    /\ fc_count = 0
    /\ fc_stats = <<>>

MlIdle == DelayIdle /\ PredictorIdle /\ ForecastIdle

\* no training run has been recorded
TrainIdle ==
    /\ rng = 0
    /\ tr_runs = <<>>

\* the application is not serving
AppIdle ==
    /\ app_pc = "off"
    /\ app_request = <<>>
    /\ app_response = {}
    /\ app_count = 0

RestIdle == TrainIdle /\ AppIdle

Init ==
    /\ pc = "idle"
    /\ caller = "handler"
    /\ request \in Requests
    /\ db_closures \in ClosureTables
    /\ now \in Times
    /\ weather \in {ClearWeather, AdverseWeather}
    /\ db_routes = {}
    /\ calls = 1
    /\ history = <<>>
    /\ road_closures = <<>>
    /\ current_point = request.origin
    /\ remaining_destinations = <<>>
    /\ route = <<>>
    /\ total_distance = 0
    /\ total_penalty = 0
    /\ closure_avoidance_count = 0
    /\ weather_penalty_total = 0
    /\ best = NoBest
    /\ route_result = {}
    /\ response = {}
    /\ PenIdle
    /\ RiskIdle
    /\ MlIdle
    /\ RestIdle

Next ==
    \/ HandlerReject
    \/ HandlerStart
    \/ DirectCall
    \/ LoopStep
    \/ Return
    \/ Repeat

Spec == Init /\ [][Next]_vars

\* ------------------------------------- calculate_route_penalty on its own

WeatherKeys == {"visibility", "wind_speed", "precipitation", "temperature"}

\* weather dicts with every subset of the four keys (the empty one is also
\* None), each value on either side of its threshold
WeatherDicts ==
    {[k \in K |-> f[k]] :
        f \in [visibility : {4999, 5000}, wind_speed : {15, 16},
               precipitation : {10, 11}, temperature : {-1, 0}],
        K \in SUBSET WeatherKeys}

PenPoints == {Pt(0, 500), Pt(0, 1000)}

\* closure dicts: one coordinate on a point; two coordinates near the same
\* point; coordinates exactly 0.01 degrees off, or near in latitude only;
\* no "coordinates" key
PenClosures ==
    { [id |-> 1, coordinates |-> <<Pt(0, 500)>>],
      [id |-> 2, coordinates |-> <<Pt(5, 505), Pt(0, 500)>>],
      [id |-> 3, coordinates |-> <<Pt(0, 510), Pt(10, 1000), Pt(0, 700)>>],
      [id |-> 4] }

PenArgs ==
    [point : PenPoints, weather_data : WeatherDicts,
     road_closures : SeqsUpTo(PenClosures, MaxClosures)]

RouteIdle ==
    /\ pc = "off"
    /\ caller = "direct"
    /\ request = [origin |-> Pt(0, 0), destinations |-> <<>>,
                  avoid_closures |-> FALSE, optimize_for_weather |-> FALSE]
    /\ db_closures = {}
    /\ now = 1
    /\ weather = ClearWeather
    /\ db_routes = {}
    /\ calls = 1
    /\ history = <<>>
    /\ road_closures = <<>>
    /\ current_point = Pt(0, 0)
    /\ remaining_destinations = <<>>
    /\ route = <<>>
    /\ total_distance = 0
    /\ total_penalty = 0
    /\ closure_avoidance_count = 0
    /\ weather_penalty_total = 0
    /\ best = NoBest
    /\ route_result = {}
    /\ response = {}

InitPenalty ==
    /\ RouteIdle
    /\ pen_pc = "ready"
    /\ pen_args \in PenArgs
    /\ pen_result = {}
    /\ RiskIdle
    /\ MlIdle
    /\ RestIdle

\* lines 73-111
PenaltyCall ==
    /\ pen_pc = "ready"
    /\ pen_result' = {calculate_route_penalty(pen_args.point, pen_args.weather_data,
                                              pen_args.road_closures)}
    /\ pen_pc' = "returned"
    /\ UNCHANGED <<pen_args, routeVars, riskVars, mlVars, restVars>>

NextPenalty == PenaltyCall

SpecPenalty == InitPenalty /\ [][NextPenalty]_vars

\* ---------------------------------------- calculate_route_risk on its own

\* waypoint lists of every length from the trivial one-waypoint route to
\* MaxNodes, over one point or two points in turn
RiskNodeLists ==
    {[i \in 1..n |-> IF i % 2 = 0 THEN pq[1] ELSE pq[2]] :
        n \in 1..MaxNodes, pq \in DestPoints \X DestPoints}

RiskArgs ==
    [nodes : RiskNodeLists, avoid_closures : BOOLEAN, optimize_weather : BOOLEAN]

InitRisk ==
    /\ RouteIdle
    /\ PenIdle
    /\ risk_pc = "ready"
    /\ risk_args \in RiskArgs
    /\ risk_result = {}
    /\ MlIdle
    /\ RestIdle

\* lines 293-313
RiskCall ==
    /\ risk_pc = "ready"
    /\ risk_result' = {calculate_route_risk(risk_args.nodes, risk_args.avoid_closures,
                                            risk_args.optimize_weather)}
    /\ risk_pc' = "returned"
    /\ UNCHANGED <<risk_args, routeVars, penVars, mlVars, restVars>>

NextRisk == RiskCall

SpecRisk == InitRisk /\ [][NextRisk]_vars

\* ------------------------- the tracking of one chosen leg (lines 167-179)

\* penalties calculate_route_penalty can return, in tenths: 1.0, values
\* between 1.0 and 2.0, exactly 2.0, and values above 2.0 made of weather
\* terms alone or with a closure term
LegPenalties == {10, 13, 15, 18, 20, 21, 25, 30, 60, 65, 110}

LegClosureLists == {<<>>, <<[id |-> 1, coordinates |-> <<Pt(0, 500)>>]>>}

\* the loop right after the scan of lines 148-165 has settled on the only
\* destination left, with any penalty the penalty function can give it
InitLegs ==
    /\ pc = "leg"
    /\ caller = "direct"
    /\ request \in {r \in Requests : r.origin = Pt(0, 0) /\ r.destinations = <<Pt(0, 500)>>}
    /\ db_closures = {}
    /\ now = 1
    /\ weather = ClearWeather
    /\ db_routes = {}
    /\ calls = 1
    /\ history = <<>>
    /\ road_closures \in LegClosureLists
    /\ current_point = request.origin
    /\ remaining_destinations = request.destinations
    /\ route = <<request.origin>>
    /\ total_distance = 0
    /\ total_penalty = 0
    /\ closure_avoidance_count = 0
    /\ weather_penalty_total = 0
    /\ \E p \in LegPenalties :
          LET d == calculate_distance(current_point, remaining_destinations[1])
          IN  best = [best_cost |-> {d * p}, best_idx |-> 0,
                      best_raw_distance |-> d, best_penalty |-> p]
    /\ route_result = {}
    /\ response = {}
    /\ PenIdle
    /\ RiskIdle
    /\ MlIdle
    /\ RestIdle

\* lines 167-179 for the leg held in best
LegStep ==
    /\ pc = "leg"
    /\ LET next_point == PopValue(remaining_destinations, best.best_idx)
       IN  /\ remaining_destinations' = PopRest(remaining_destinations, best.best_idx)
           /\ route' = Append(route, next_point)
           /\ total_distance' = total_distance + best.best_raw_distance
           /\ total_penalty' = total_penalty + best.best_penalty
           /\ closure_avoidance_count' =
                  ClosureAvoidanceAfter(closure_avoidance_count, best.best_penalty,
                                        road_closures)
           /\ weather_penalty_total' =
                  WeatherPenaltyAfter(weather_penalty_total, best.best_penalty)
           /\ current_point' = next_point
    /\ pc' = "legdone"
    /\ UNCHANGED <<best, caller, request, envVars, db_routes, calls, history,
                   road_closures, route_result, response, unitVars>>

\* the route handler together with single legs of every penalty
SpecLegs == (Init \/ InitLegs) /\ [][Next \/ LegStep]_vars

\* ------------------------------- DelayPredictor._calculate_delay_from_factors
\*
\* Units: visibility in metres; wind_speed, precipitation, temperature,
\* traffic_load and road_type_factor in tenths (5.5 m/s is 55, a factor of 1.0
\* is 10); the five impacts in thousandths of a minute; a delay, after the
\* multiplication by road_type_factor, in ten-thousandths of a minute (20
\* minutes is 200000).  A features dict is a function on its keys.

\* lines 27-30 of __init__, and the order in which lines 68-96 read the keys
FeatureNames ==
    <<"visibility", "wind_speed", "precipitation", "temperature",
      "traffic_load", "road_type_factor">>

\* the outcome of a call: a returned number, or an exception; value is the
\* number, or for a KeyError the position in FeatureNames of the missing key
Value(x) == [kind |-> "value", value |-> x]

KeyError(i) == [kind |-> "KeyError", value |-> i]

TypeError == [kind |-> "TypeError", value |-> 0]

\* lines 68-71
VisibilityImpact(visibility) ==
    IF visibility < 2000 THEN 20 * (2000 - visibility)
    ELSE IF visibility < 5000 THEN 4 * (5000 - visibility)
    ELSE 0

\* a faulty variant of WindImpact: the second test is an if, not an elif
WindImpactBothTiers(wind_speed) ==
    (IF wind_speed > 150 THEN 15000 ELSE 0) + (IF wind_speed > 100 THEN 10000 ELSE 0)

\* lines 75-78
WindImpact(wind_speed) ==
    IF wind_speed > 150 THEN 15000
    ELSE IF wind_speed > 100 THEN 10000
    ELSE 0

\* lines 81-84
PrecipitationImpact(precipitation) ==
    IF precipitation > 100 THEN 25000
    ELSE IF precipitation > 20 THEN 10000
    ELSE 0

\* lines 87-90
TemperatureImpact(temperature) ==
    IF temperature < 0 THEN 20000
    ELSE IF temperature > 300 THEN 10000
    ELSE 0

\* line 93: traffic_load * 30
TrafficImpact(traffic_load) == traffic_load * 3000

\* a faulty variant of Cap: only the upper limit
CapUpperOnly(delay) == Min(delay, 1200000)

\* line 99: max(0, min(delay, 120))
Cap(delay) == Max(0, Min(delay, 1200000))

\* lines 63-99; factors['key'] raises KeyError for the first key read that
\* the dict does not have
calculate_delay_from_factors(factors) ==
    LET missing == {i \in 1..Len(FeatureNames) : FeatureNames[i] \notin DOMAIN factors}
    IN  IF missing # {}
        THEN KeyError(CHOOSE i \in missing : \A j \in missing : i <= j)
        ELSE LET delay == VisibilityImpact(factors["visibility"])
                          + WindImpact(factors["wind_speed"])
                          + PrecipitationImpact(factors["precipitation"])
                          + TemperatureImpact(factors["temperature"])
                          + TrafficImpact(factors["traffic_load"])
             IN  Value(Cap(delay * factors["road_type_factor"]))

\* feature vectors with all six keys: each value on either side of its tiers,
\* and negative visibility, traffic_load and road_type_factor
DelayArgs ==
    [visibility : {-1000, 0, 1000, 1999, 2000, 4999, 5000, 8000},
     wind_speed : {0, 100, 101, 150, 151},
     precipitation : {0, 20, 21, 100, 101},
     temperature : {-1, 0, 150, 300, 301},
     traffic_load : {-5, 0, 3, 10},
     road_type_factor : {-10, 5, 10, 15}]

RoutingIdle == RouteIdle /\ PenIdle /\ RiskIdle

InitDelay ==
    /\ RoutingIdle
    /\ RestIdle
    /\ PredictorIdle
    /\ ForecastIdle
    /\ delay_pc = "ready"
    /\ delay_args \in DelayArgs
    /\ delay_result = {}

\* lines 63-99
DelayCall ==
    /\ delay_pc = "ready"
    /\ delay_result' = {calculate_delay_from_factors(delay_args)}
    /\ delay_pc' = "returned"
    /\ UNCHANGED <<delay_args, routeVars, penVars, riskVars, objVars, predVars, fcVars, restVars>>

NextDelay == DelayCall

SpecDelay == InitDelay /\ [][NextDelay]_vars

\* ------------------------------------------------------------ DelayPredictor
\*
\* weights and bias are sets: {} is None, {x} holds x.  A weight multiplies a
\* feature in the feature's unit and gives ten-thousandths of a minute.

\* lines 23-30
NewPredictor == [weights |-> {}, bias |-> {}, feature_names |-> FeatureNames]

\* lines 101-119: what the normal equation gives for the 2000 samples of seed
\* 42 (bias -24.1772; weights -0.0013136, 1.01854, 1.01805, -0.334522,
\* 29.1645, 47.3737), in the units of the model
TrainedBias == -241772

TrainedWeightOf ==
    [visibility |-> -13, wind_speed |-> 1019, precipitation |-> 1018,
     temperature |-> -335, traffic_load |-> 29165, road_type_factor |-> 47374]

\* lines 101-119: the columns of X are taken in the order of
\* self.feature_names (line 57), so weights[i] belongs to feature_names[i]
train(self) ==
    [self EXCEPT
        !.bias = {TrainedBias},
        !.weights = {[i \in 1..Len(self.feature_names) |->
                         TrainedWeightOf[self.feature_names[i]]]}]

\* the file at model_path: absent, not a pickle, or a pickled dict
Missing == [kind |-> "missing", data |-> <<>>]

Corrupt == [kind |-> "corrupt", data |-> <<>>]

Pickle(d) == [kind |-> "pickle", data |-> d]

\* lines 144-158: what save_model writes
save_model(self) ==
    Pickle([weights |-> self.weights, bias |-> self.bias,
            feature_names |-> self.feature_names, trained_at |-> "now"])

\* lines 160-177: the three assignments are made one after the other, and a
\* missing key ends the load with the assignments before it made
load_model(self, file) ==
    IF file.kind # "pickle" THEN [self |-> self, ok |-> FALSE]
    ELSE LET d == file.data
             s1 == IF "weights" \in DOMAIN d
                   THEN [self EXCEPT !.weights = d.weights] ELSE self
             s2 == IF "bias" \in DOMAIN d
                   THEN [s1 EXCEPT !.bias = d.bias] ELSE s1
             s3 == IF "feature_names" \in DOMAIN d
                   THEN [s2 EXCEPT !.feature_names = d.feature_names] ELSE s2
         IN  IF "weights" \notin DOMAIN d THEN [self |-> self, ok |-> FALSE]
             ELSE IF "bias" \notin DOMAIN d THEN [self |-> s1, ok |-> FALSE]
             ELSE IF "feature_names" \notin DOMAIN d THEN [self |-> s2, ok |-> FALSE]
             ELSE [self |-> s3, ok |-> TRUE]

\* line 137: np.dot(self.weights, feature_values)
RECURSIVE Dot(_, _)
Dot(w, x) ==
    IF Len(w) = 0 THEN 0 ELSE Head(w) * Head(x) + Dot(Tail(w), Tail(x))

\* a faulty variant of PredictionOf: the prediction is returned as it is
PredictionRaw(prediction) == prediction

\* line 138: max(0, prediction)
PredictionOf(prediction) == Max(0, prediction)

\* a faulty variant of Fallback: an untrained predictor answers no delay
FallbackZero(features) == Value(0)

\* lines 132 and 142: the rule-based logic takes the place of the model
Fallback(features) == calculate_delay_from_factors(features)

\* a faulty variant of SelfAfterPredict: the fallback for a missing key drops
\* the weights
SelfAfterPredictDropsWeights(self, features) ==
    IF \E i \in 1..Len(self.feature_names) : self.feature_names[i] \notin DOMAIN features
    THEN [self EXCEPT !.weights = {}, !.bias = {}]
    ELSE self

\* lines 125-142 assign to no field of self
SelfAfterPredict(self, features) == self

\* lines 125-142
predict(self, features) ==
    IF self.weights = {} THEN Fallback(features)
    ELSE IF \E i \in 1..Len(self.feature_names) :
                self.feature_names[i] \notin DOMAIN features
    THEN Fallback(features)
    ELSE IF self.bias = {} THEN TypeError
    ELSE LET feature_values == [i \in 1..Len(self.feature_names) |->
                                   features[self.feature_names[i]]]
             w == CHOOSE x \in self.weights : TRUE
             b == CHOOSE x \in self.bias : TRUE
         IN  Value(PredictionOf(b + Dot(w, feature_values)))

\* ---------------------------------- a DelayPredictor used by any caller

\* feature_names in another order, as a file not written by this code may
\* hold them
OtherNames ==
    <<"wind_speed", "visibility", "precipitation", "temperature",
      "traffic_load", "road_type_factor">>

\* files found at model_path: none; not a pickle; dicts lacking a key; what
\* save_model wrote after train; a dict with the names in another order
InitialArtifacts ==
    { Missing, Corrupt,
      Pickle([bias |-> {TrainedBias}, feature_names |-> FeatureNames]),
      Pickle([weights |-> train(NewPredictor).weights, feature_names |-> FeatureNames]),
      save_model(train(NewPredictor)),
      save_model(train([NewPredictor EXCEPT !.feature_names = OtherNames])) }

\* the features of the forecast handler (lines 67-74 of forecast.py), a clear
\* day on a slow road, and a bad day
FullFeatures ==
    { [visibility |-> 8000, wind_speed |-> 55, precipitation |-> 0,
       temperature |-> 200, traffic_load |-> 3, road_type_factor |-> 10],
      [visibility |-> 8000, wind_speed |-> 0, precipitation |-> 0,
       temperature |-> 200, traffic_load |-> 0, road_type_factor |-> 5],
      [visibility |-> 1000, wind_speed |-> 160, precipitation |-> 110,
       temperature |-> -10, traffic_load |-> 10, road_type_factor |-> 15] }

FeatureKeys == {FeatureNames[i] : i \in 1..Len(FeatureNames)}

\* the same with one key left out, and the empty dict
PredictFeatures ==
    FullFeatures
    \cup {[k \in FeatureKeys \ {out} |-> f[k]] : f \in FullFeatures, out \in FeatureKeys}
    \cup {<<>>}

InitPredictor ==
    /\ RoutingIdle
    /\ RestIdle
    /\ DelayIdle
    /\ ForecastIdle
    /\ predictor = NewPredictor
    /\ artifact \in InitialArtifacts
    /\ disk_writable \in BOOLEAN
    /\ p_pc = "constructed"
    /\ p_features = <<>>
    /\ p_result = {}

\* DelayPredictor(): lines 23-30
Construct ==
    /\ predictor' = NewPredictor
    /\ p_pc' = "constructed"
    /\ p_features' = <<>>
    /\ p_result' = {}
    /\ UNCHANGED <<artifact, disk_writable, routeVars, penVars, riskVars,
                   delayVars, fcVars, restVars>>

\* predictor.load_model(): lines 160-177
LoadModel ==
    /\ LET r == load_model(predictor, artifact)
       IN  /\ predictor' = r.self
           /\ p_pc' = IF r.ok THEN "loaded" ELSE "load_failed"
    /\ p_features' = <<>>
    /\ p_result' = {}
    /\ UNCHANGED <<artifact, disk_writable, routeVars, penVars, riskVars,
                   delayVars, fcVars, restVars>>

\* predictor.train(): lines 101-123
Train ==
    /\ predictor' = train(predictor)
    /\ p_pc' = "trained"
    /\ p_features' = <<>>
    /\ p_result' = {}
    /\ UNCHANGED <<artifact, disk_writable, routeVars, penVars, riskVars,
                   delayVars, fcVars, restVars>>

\* predictor.save_model(): lines 144-158; os.makedirs or open raises when the
\* path cannot be written
SaveModel ==
    /\ IF disk_writable
       THEN artifact' = save_model(predictor) /\ p_pc' = "saved"
       ELSE UNCHANGED artifact /\ p_pc' = "save_failed"
    /\ p_features' = <<>>
    /\ p_result' = {}
    /\ UNCHANGED <<predictor, disk_writable, routeVars, penVars, riskVars,
                   delayVars, fcVars, restVars>>

\* predictor.predict(features): lines 125-142
Predict ==
    /\ \E f \in PredictFeatures :
          /\ p_features' = f
          /\ p_result' = {predict(predictor, f)}
          /\ predictor' = SelfAfterPredict(predictor, f)
    /\ p_pc' = "predicted"
    /\ UNCHANGED <<artifact, disk_writable, routeVars, penVars,
                   riskVars, delayVars, fcVars, restVars>>

NextPredictor ==
    \/ Construct
    \/ LoadModel
    \/ Train
    \/ SaveModel
    \/ Predict

SpecPredictor == InitPredictor /\ [][NextPredictor]_vars

\* ------------------------------------------- the forecast handlers (forecast.py)
\*
\* Each request builds its own DelayPredictor through get_delays_predictor
\* (delay_predictor.py lines 187-193).  The handlers are coroutines without an
\* await, so one request is handled to its end before the next one starts.

\* lines 67-74 of forecast.py
ForecastFeatures ==
    [visibility |-> 8000, wind_speed |-> 55, precipitation |-> 0,
     temperature |-> 200, traffic_load |-> 3, road_type_factor |-> 10]

\* lines 79-93 of forecast.py, in tenths
WeatherFactor(features) ==
    (IF features.visibility < 5000 THEN 4
     ELSE IF features.visibility < 10000 THEN 2 ELSE 0)
    + (IF features.wind_speed > 100 THEN 3 ELSE 0)
    + (IF features.precipitation > 50 THEN 5 ELSE 0)
    + (IF features.temperature < 0 THEN 3 ELSE 0)

\* lines 95-112 of forecast.py; delay_probability = min(1.0, delay / 60 + 0.1)
\* is counted in 600000ths, confidence in hundredths
ForecastPrediction(self, features, estimated_delay) ==
    [delay_probability |-> Min(600000, estimated_delay + 60000),
     estimated_delay |-> estimated_delay,
     confidence |-> IF self.weights # {} THEN 95 ELSE 80,
     weather_factor |-> WeatherFactor(features),
     traffic_factor |-> features.traffic_load]

\* a faulty variant of AfterLoad: a failed load is not followed by training
AfterLoadNoTraining(ok) == "ready"

\* line 181 of delay_predictor.py: if not self.load_model()
AfterLoad(ok) == IF ok THEN "ready" ELSE "train"

\* what a handler answers when an exception reaches its except clause: the
\* predict handler raises HTTPException 500 (lines 128-131), the health
\* handler answers success False (lines 42-48)
ForecastFailure(handler, error) ==
    IF handler = "predict"
    THEN [status_code |-> 500, success |-> FALSE, data |-> <<error>>]
    ELSE [status_code |-> 200, success |-> FALSE, data |-> <<error>>]

InitForecast ==
    /\ RoutingIdle
    /\ RestIdle
    /\ DelayIdle
    /\ predictor = <<>>
    /\ artifact \in InitialArtifacts
    /\ disk_writable \in BOOLEAN
    /\ p_pc = "off"
    /\ p_features = <<>>
    /\ p_result = {}
    /\ fc_pc = "idle"
    /\ fc_handler = "none"
    /\ fc_trace = <<>>
    /\ fc_response = {}
    /\ fc_count = 0
    /\ fc_stats = [start |-> artifact.kind, loads |-> 0, trainings |-> 0]

\* a request reaches a handler, which calls get_delays_predictor: lines 31
\* and 63 of forecast.py, line 190 of delay_predictor.py
FcStart ==
    /\ fc_pc = "idle"
    /\ \E h \in {"predict", "health"} :
          /\ h = "predict" => fc_count < MaxPredictions
          /\ fc_stats.loads < MaxLoads
          /\ fc_handler' = h
    /\ predictor' = NewPredictor
    /\ fc_trace' = <<"construct">>
    /\ fc_pc' = "constructed"
    /\ UNCHANGED <<artifact, disk_writable, fc_response, fc_count, fc_stats, predVars,
                   routeVars, penVars, riskVars, delayVars, restVars>>

\* ensure_model_exists, line 181: self.load_model()
FcLoad ==
    /\ fc_pc = "constructed"
    /\ LET r == load_model(predictor, artifact)
       IN  /\ predictor' = r.self
           /\ fc_pc' = AfterLoad(r.ok)
           /\ fc_trace' = Append(fc_trace, IF r.ok THEN "load_ok" ELSE "load_failed")
    /\ fc_stats' = [fc_stats EXCEPT !.loads = @ + 1]
    /\ UNCHANGED <<artifact, disk_writable, fc_handler, fc_response, fc_count,
                   predVars, routeVars, penVars, riskVars, delayVars, restVars>>

\* ensure_model_exists, line 183: self.train()
FcTrain ==
    /\ fc_pc = "train"
    /\ predictor' = train(predictor)
    /\ fc_trace' = Append(fc_trace, "train")
    /\ fc_pc' = "save"
    /\ fc_stats' = [fc_stats EXCEPT !.trainings = @ + 1]
    /\ UNCHANGED <<artifact, disk_writable, fc_handler, fc_response, fc_count,
                   predVars, routeVars, penVars, riskVars, delayVars, restVars>>

\* ensure_model_exists, line 184: self.save_model(); when the file cannot be
\* written the exception leaves get_delays_predictor and the handler answers
FcSave ==
    /\ fc_pc = "save"
    /\ IF disk_writable
       THEN /\ artifact' = save_model(predictor)
            /\ fc_trace' = Append(fc_trace, "save")
            /\ fc_pc' = "ready"
            /\ UNCHANGED fc_response
       ELSE /\ fc_trace' = Append(fc_trace, "save_failed")
            /\ fc_response' = {ForecastFailure(fc_handler, "OSError")}
            /\ fc_pc' = "done"
            /\ UNCHANGED artifact
    /\ UNCHANGED <<predictor, disk_writable, fc_handler, fc_count, fc_stats, predVars,
                   routeVars, penVars, riskVars, delayVars, restVars>>

\* generate_forecast_prediction, lines 65-126 of forecast.py: the prediction,
\* the row of forecast_predictions and the answer
FcPredict ==
    /\ fc_pc = "ready"
    /\ fc_handler = "predict"
    /\ LET r == predict(predictor, ForecastFeatures)
       IN  IF r.kind = "value"
           THEN /\ fc_count' = fc_count + 1
                /\ fc_response' =
                      {[status_code |-> 200, success |-> TRUE,
                        data |-> [prediction |-> ForecastPrediction(
                                      predictor, ForecastFeatures, r.value),
                                  prediction_id |-> fc_count + 1]]}
           ELSE /\ fc_response' = {ForecastFailure(fc_handler, r.kind)}
                /\ UNCHANGED fc_count
    /\ fc_trace' = Append(fc_trace, "predict")
    /\ fc_pc' = "done"
    /\ UNCHANGED <<predictor, artifact, disk_writable, fc_handler, fc_stats, predVars,
                   routeVars, penVars, riskVars, delayVars, restVars>>

\* forecast_health_check, lines 32-41 of forecast.py
FcHealth ==
    /\ fc_pc = "ready"
    /\ fc_handler = "health"
    /\ fc_response' =
          {[status_code |-> 200, success |-> TRUE,
            data |-> [status |-> "active",
                      ml_model |-> IF predictor.weights # {} THEN "trained"
                                   ELSE "fallback",
                      features |-> IF predictor.weights # {}
                                   THEN predictor.feature_names ELSE <<>>]]}
    /\ fc_trace' = Append(fc_trace, "health")
    /\ fc_pc' = "done"
    /\ UNCHANGED <<predictor, artifact, disk_writable, fc_handler, fc_count, fc_stats,
                   predVars, routeVars, penVars, riskVars, delayVars, restVars>>

\* the answer has been sent; the predictor of the request is dropped
FcNext ==
    /\ fc_pc = "done"
    /\ fc_pc' = "idle"
    /\ fc_handler' = "none"
    /\ fc_trace' = <<>>
    /\ fc_response' = {}
    /\ predictor' = <<>>
    /\ UNCHANGED <<artifact, disk_writable, fc_count, fc_stats, predVars,
                   routeVars, penVars, riskVars, delayVars, restVars>>

NextForecast ==
    \/ FcStart
    \/ FcLoad
    \/ FcTrain
    \/ FcSave
    \/ FcPredict
    \/ FcHealth
    \/ FcNext

SpecForecast == InitForecast /\ [][NextForecast]_vars

\* ------------------------------- generate_training_data and train, repeated
\*
\* The random module keeps one generator for the whole process.  Its state is
\* a number in 0..MaxRng here; a draw moves it on and reads the new state.

\* random.seed(seed): the state depends on the seed alone (line 37)
SeedState(seed, state) == seed % (MaxRng + 1)

\* one step of the generator
NextRng(state) == (5 * state + 3) % (MaxRng + 1)

\* random.uniform(lo, hi) and random.randint(lo, hi) read off a state
Uniform(lo, hi, state) == lo + (state * (hi - lo)) \div MaxRng

\* the state after k draws
RECURSIVE Drawn(_, _)
Drawn(state, k) == IF k = 0 THEN state ELSE NextRng(Drawn(state, k - 1))

\* lines 42-50: one sample takes six draws, in this order
SampleAt(state) ==
    [visibility |-> Uniform(500, 12000, Drawn(state, 1)),
     wind_speed |-> Uniform(0, 200, Drawn(state, 2)),
     precipitation |-> Uniform(0, 250, Drawn(state, 3)),
     temperature |-> Uniform(-100, 350, Drawn(state, 4)),
     traffic_load |-> Uniform(0, 10, Drawn(state, 5)),
     road_type_factor |-> Uniform(5, 15, Drawn(state, 6))]

\* lines 32-61: seed, draw n_samples samples, label each one (line 53), and
\* take the columns of X in the order of self.feature_names (line 57)
generate_training_data(self, n_samples, state) ==
    LET seeded == SeedState(42, state)
        sample(k) == SampleAt(Drawn(seeded, 6 * (k - 1)))
    IN  [X |-> [k \in 1..n_samples |->
                   [i \in 1..Len(self.feature_names) |->
                       sample(k)[self.feature_names[i]]]],
         y |-> [k \in 1..n_samples |-> calculate_delay_from_factors(sample(k)).value],
         rng |-> Drawn(seeded, 6 * n_samples)]

RECURSIVE SumOver(_, _)
SumOver(f, n) == IF n = 0 THEN 0 ELSE f[n] + SumOver(f, n - 1)

\* lines 108-113: the intercept column, X^T X and X^T y, of which the bias and
\* the weights are the solution; y enters in hundredths of a minute
NormalEquation(X, y) ==
    LET n == Len(X)
        X_intercept == [k \in 1..n |-> <<1>> \o X[k]]
        cols == IF n = 0 THEN 0 ELSE Len(X_intercept[1])
    IN  [XTX |-> [a \in 1..cols |-> [b \in 1..cols |->
                    SumOver([k \in 1..n |-> X_intercept[k][a] * X_intercept[k][b]], n)]],
         XTy |-> [a \in 1..cols |->
                    SumOver([k \in 1..n |-> X_intercept[k][a] * (y[k] \div 100)], n)]]

\* a process that has constructed a predictor; the generator is in any state
InitTraining ==
    /\ RoutingIdle
    /\ DelayIdle
    /\ ForecastIdle
    /\ AppIdle
    /\ predictor = NewPredictor
    /\ artifact \in InitialArtifacts
    /\ disk_writable = TRUE
    /\ p_pc = "constructed"
    /\ p_features = <<>>
    /\ p_result = {}
    /\ rng \in 0..MaxRng
    /\ tr_runs = <<>>

\* predictor.train(): lines 101-123, with the data generation of lines 32-61
TrainRun ==
    /\ Len(tr_runs) < MaxRuns
    /\ LET d == generate_training_data(predictor, TrainSamples, rng)
           trained == train(predictor)
       IN  /\ rng' = d.rng
           /\ predictor' = trained
           /\ tr_runs' = Append(tr_runs,
                  [X |-> d.X, y |-> d.y, system |-> NormalEquation(d.X, d.y),
                   bias |-> trained.bias, weights |-> trained.weights])
    /\ p_pc' = "trained"
    /\ p_features' = <<>>
    /\ p_result' = {}
    /\ UNCHANGED <<artifact, disk_writable, routeVars, penVars, riskVars,
                   delayVars, fcVars, appVars>>

\* any other code of the process draws a random number
DrawRandom ==
    /\ rng' = NextRng(rng)
    /\ UNCHANGED <<tr_runs, routeVars, penVars, riskVars, mlVars, appVars>>

NextTraining ==
    \/ LoadModel
    \/ TrainRun
    \/ DrawRandom

SpecTraining == InitTraining /\ [][NextTraining]_vars

\* ------------------------------------------------ the application (main.py)

\* settings.api_v1_prefix, config.py line 14
api_v1_prefix == "/api/v1"

Route(method, path, handler) == [method |-> method, path |-> path, handler |-> handler]

\* the routes each router module declares with a fixed path
RouterRoutes ==
    [roads |-> {Route("GET", "/health", "roads_health_check"),
                Route("POST", "/nodes", "create_node"),
                Route("GET", "/nodes", "list_nodes"),
                Route("GET", "/edges", "list_edges"),
                Route("GET", "/closures", "list_closures"),
                Route("POST", "/closures/report", "report_closure"),
                Route("GET", "/statistics", "statistics")},
     weather |-> {Route("GET", "/health", "weather_health_check"),
                  Route("GET", "/current", "current_weather"),
                  Route("POST", "/forecast", "weather_forecast"),
                  Route("GET", "/historical", "historical_weather"),
                  Route("GET", "/alerts", "weather_alerts")},
     forecast |-> {Route("GET", "/health", "forecast_health_check"),
                   Route("POST", "/predict", "generate_forecast_prediction")},
     optimize |-> {Route("GET", "/health", "optimize_health_check"),
                   Route("POST", "/route", "optimize_route"),
                   Route("GET", "/algorithms", "list_optimization_algorithms")}]

\* app.include_router(router, prefix): lines 75-85; the routers main.py
\* imports (lines 17-18) and includes
IncludedRouters ==
    {[router |-> "roads", prefix |-> api_v1_prefix \o "/roads"],
     [router |-> "weather", prefix |-> api_v1_prefix \o "/weather"]}

\* the routes declared on the app itself: lines 90, 107 and 146
OwnRoutes ==
    {Route("GET", "/health", "health_check"),
     Route("GET", "/health/detailed", "detailed_health_check"),
     Route("GET", "/", "root")}

\* the route table of app
AppRoutes ==
    OwnRoutes \cup
    UNION {{Route(r.method, i.prefix \o r.path, r.handler) :
               r \in RouterRoutes[i.router]} : i \in IncludedRouters}

\* what a handler answers: APIResponse(success=True, ...) with status 200 in
\* main.py lines 90-164, roads.py lines 138-145, weather.py lines 23-36
HandlerAnswer(handler) ==
    [status_code |-> 200, body |-> [success |-> TRUE, handler |-> handler]]

NotFound == [status_code |-> 404, body |-> [detail |-> "Not Found"]]

MethodNotAllowed == [status_code |-> 405, body |-> [detail |-> "Method Not Allowed"]]

\* the app answers a request: the handler of the route whose path and method
\* match, 405 when only the path matches, 404 when no path matches
Dispatch(req) ==
    IF \E r \in AppRoutes : r.path = req.path /\ r.method = req.method
    THEN HandlerAnswer((CHOOSE r \in AppRoutes :
                            r.path = req.path /\ r.method = req.method).handler)
    ELSE IF \E r \in AppRoutes : r.path = req.path THEN MethodNotAllowed
    ELSE NotFound

\* the requests of the model
AppPaths ==
    {"/", "/health", "/health/detailed",
     "/api/v1/roads/health", "/api/v1/weather/health",
     "/api/v1/forecast/health", "/api/v1/forecast/predict",
     "/api/v1/optimize/health", "/api/v1/optimize/route",
     "/api/v1/optimize/algorithms", "/api/v1/reports/health"}

AppRequests == [method : {"GET", "POST"}, path : AppPaths]

InitApp ==
    /\ RoutingIdle
    /\ MlIdle
    /\ TrainIdle
    /\ app_pc = "serving"
    /\ app_request = <<>>
    /\ app_response = {}
    /\ app_count = 0

\* one request is received and answered
Serve ==
    /\ app_pc = "serving"
    /\ app_count < MaxRequests
    /\ \E req \in AppRequests :
          /\ app_request' = req
          /\ app_response' = {Dispatch(req)}
    /\ app_count' = app_count + 1
    /\ UNCHANGED <<app_pc, routeVars, penVars, riskVars, mlVars, trainVars>>

NextApp == Serve

SpecApp == InitApp /\ [][NextApp]_vars

\* ------------------------------------------------------------- properties

\* whether point p lies within 0.01 degrees of coordinate c, in latitude and
\* in longitude
Within(c, p) == Abs(c.lat - p.lat) < 10 /\ Abs(c.lng - p.lng) < 10

\* whether some coordinate of some closure record lies near p
NearSomeClosure(p, closures) ==
    \E i \in 1..Len(closures) :
        /\ "coordinates" \in DOMAIN closures[i]
        /\ \E j \in 1..Len(closures[i].coordinates) :
               Within(closures[i].coordinates[j], p)

\* the four weather terms as the specification states them
StatedWeatherTerms(w) ==
      (IF "visibility" \in DOMAIN w /\ w.visibility < 5000 THEN 5 ELSE 0)
    + (IF "wind_speed" \in DOMAIN w /\ w.wind_speed > 15 THEN 3 ELSE 0)
    + (IF "precipitation" \in DOMAIN w /\ w.precipitation > 10 THEN 8 ELSE 0)
    + (IF "temperature" \in DOMAIN w /\ w.temperature < 0 THEN 4 ELSE 0)

\* C8 (as claimed): the closure contribution to calculate_route_penalty is
\* +5.0 when the point is near a coordinate of at least one closure record and
\* 0 otherwise, however many records match.
C8_ClosureContributionFlat ==
    pen_pc = "returned" =>
        \A r \in pen_result :
            r - 10 - StatedWeatherTerms(pen_args.weather_data)
              = IF NearSomeClosure(pen_args.point, pen_args.road_closures)
                THEN 50 ELSE 0

\* C9: the weather part of calculate_route_penalty (the result less the 1.0
\* baseline and the closure contribution) is the sum of the four terms, each
\* applied on its own, and lies between 0 and 2.0.
C9_WeatherTermsIndependent ==
    pen_pc = "returned" =>
        \A r \in pen_result :
            LET part == r - 10 - ClosurePart(pen_args.road_closures, pen_args.point)
            IN  /\ part = StatedWeatherTerms(pen_args.weather_data)
                /\ 0 <= part /\ part <= 20

\* C9 witness: a call on a snapshot where all four terms apply at once
C9_Witness ==
    /\ pen_pc = "returned"
    /\ DOMAIN pen_args.weather_data = WeatherKeys
    /\ pen_args.weather_data.visibility < 5000
    /\ pen_args.weather_data.wind_speed > 15
    /\ pen_args.weather_data.precipitation > 10
    /\ pen_args.weather_data.temperature < 0
    /\ pen_args.road_closures = <<>>
    /\ pen_result = {30}

\* how often x occurs in the list s
Count(s, x) == Cardinality({i \in 1..Len(s) : s[i] = x})

\* whether the lists a and b hold the same elements, each as often
IsPermutation(a, b) ==
    /\ Len(a) = Len(b)
    /\ \A i \in 1..Len(a) : Count(a, a[i]) = Count(b, a[i])

\* the penalty of a leg that ends at destination d, under the flags and the
\* closure list of the call in progress
LegPenalty(d) ==
    IF request.optimize_for_weather \/ request.avoid_closures
    THEN calculate_route_penalty(
             d, <<>>, IF request.avoid_closures THEN road_closures ELSE <<>>)
    ELSE 10

\* the cost of going from cur to d
LegCost(cur, d) == calculate_distance(cur, d) * LegPenalty(d)

RECURSIVE SumDistances(_)
SumDistances(nodes) ==
    IF Len(nodes) < 2 THEN 0
    ELSE calculate_distance(nodes[1], nodes[2]) + SumDistances(Tail(nodes))

RECURSIVE SumPenalties(_)
SumPenalties(nodes) ==
    IF Len(nodes) < 2 THEN 0
    ELSE LegPenalty(nodes[2]) + SumPenalties(Tail(nodes))

\* optimize_simple_route has returned to its caller
Returned == pc = "done" /\ route_result # {}

\* a step of the while loop is being taken
Stepping == pc = "loop" /\ Len(route') = Len(route) + 1

\* C1: the route of k destinations has k+1 waypoints, the origin first and
\* then a permutation of the destinations (duplicates kept); in every
\* iteration the route less its origin, with the remaining destinations, is a
\* permutation of the destinations.
C1_RouteIsPermutation ==
    /\ pc = "loop" =>
          /\ route[1] = request.origin
          /\ IsPermutation(Tail(route) \o remaining_destinations, request.destinations)
    /\ Returned =>
          \A r \in route_result :
              /\ Len(r.nodes) = Len(request.destinations) + 1
              /\ r.nodes[1] = request.origin
              /\ IsPermutation(Tail(r.nodes), request.destinations)

\* C1 witness: a finished route of three destinations, one requested twice,
\* that does not visit them in the order of the request
C1_Witness ==
    /\ Returned
    /\ Len(request.destinations) = 3
    /\ request.destinations[1] = request.destinations[3]
    /\ \E r \in route_result : Tail(r.nodes) # request.destinations

\* C2 (as claimed): total_distance is the sum of the unpenalised distances
\* of the consecutive waypoints.
C2_DistanceIsSum ==
    Returned => \A r \in route_result : r.total_distance = SumDistances(r.nodes)

\* C2 (amended): total_distance is that sum rounded to two decimals, and not
\* the sum of the penalised costs.
C2_DistanceIsRoundedSum ==
    Returned =>
        \A r \in route_result : r.total_distance = Round2(SumDistances(r.nodes))

\* C2 witness: a finished route with a penalised leg whose distances do not
\* add up to a whole number of hundredths
C2_Witness ==
    /\ Returned
    /\ \E r \in route_result :
          /\ \E i \in 2..Len(r.nodes) : LegPenalty(r.nodes[i]) > 10
          /\ SumDistances(r.nodes) % 10 # 0
          /\ r.total_distance = Round2(SumDistances(r.nodes))

\* C3: the destination appended in a step costs no more (raw distance from
\* the current point times the penalty of the candidate) than any destination
\* remaining at that step.
C3_ChosenIsCheapest ==
    [][Stepping =>
          \A i \in 1..Len(remaining_destinations) :
              LegCost(current_point, route'[Len(route')])
                <= LegCost(current_point, remaining_destinations[i])]_vars

\* C3 witness: a step has chosen a destination that is farther than one it
\* left behind, because of the penalty of the nearer one
C3_Witness ==
    /\ pc = "loop"
    /\ Len(route) >= 2
    /\ \E i \in 1..Len(remaining_destinations) :
          calculate_distance(route[Len(route) - 1], remaining_destinations[i])
            < best.best_raw_distance

\* C4: among remaining destinations of equal least cost the first of the list
\* is chosen; in particular origin (0,0) with destinations [(0,1), (1,0)], no
\* closures and weather optimisation off gives [(0,0), (0,1), (1,0)].
C4_TieKeepsFirst ==
    /\ [][Stepping =>
             \A i \in 1..Len(remaining_destinations) :
                 LegCost(current_point, remaining_destinations[i])
                     = LegCost(current_point, route'[Len(route')])
                   => best'.best_idx + 1 <= i]_vars
    /\ [](Returned
          /\ request.origin = Pt(0, 0)
          /\ request.destinations = <<Pt(0, 1000), Pt(1000, 0)>>
          /\ ~request.optimize_for_weather
          /\ road_closures = <<>>
          => \A r \in route_result :
                 r.nodes = <<Pt(0, 0), Pt(0, 1000), Pt(1000, 0)>>)

\* C4 witness: the scenario's route, its two first candidates tied
C4_Witness ==
    /\ Returned
    /\ request.origin = Pt(0, 0)
    /\ request.destinations = <<Pt(0, 1000), Pt(1000, 0)>>
    /\ ~request.optimize_for_weather
    /\ road_closures = <<>>
    /\ LegCost(Pt(0, 0), Pt(0, 1000)) = LegCost(Pt(0, 0), Pt(1000, 0))
    /\ \E r \in route_result : r.nodes[2] = Pt(0, 1000)

\* C5: a call with the request and the closure list of an earlier call
\* returns what the earlier call returned, waypoints and metrics.
C5_Deterministic ==
    Returned =>
        \A r \in route_result : \A i \in 1..Len(history) :
            (history[i].request = request /\ history[i].road_closures = road_closures)
                => history[i].result = r

\* C5 witness: a second call with the same request and closures has returned
\* a route of at least two legs
C5_Witness ==
    /\ Returned
    /\ \E i \in 1..Len(history) :
          /\ history[i].request = request
          /\ history[i].road_closures = road_closures
          /\ Len(history[i].result.nodes) >= 3

\* C6 (as claimed): an empty destination list is no error: both
\* optimize_simple_route and the optimize_route handler give the route
\* [origin] with every metric zero.
C6_EmptyIsNoError ==
    (pc = "done" /\ Len(request.destinations) = 0) =>
        IF caller = "direct"
        THEN route_result = {TrivialResult(request.origin)}
        ELSE /\ response # {}
             /\ \A a \in response :
                    /\ a.success
                    /\ a.data.optimization.nodes = <<request.origin>>
                    /\ a.data.optimization.total_distance = 0
                    /\ a.data.optimization.estimated_duration = 0

\* C7 (as claimed): with weather optimisation requested the penalty of the
\* chosen candidate is 1.0 plus the weather penalty of the supplied weather
\* (plus the closure penalty when closures are avoided), so under adverse
\* weather the finished route reports a positive weather_penalty.
C7_WeatherPenaltyUsed ==
    /\ (pc = "loop" /\ Len(route) >= 2 /\ request.optimize_for_weather) =>
          best.best_penalty =
              10 + StatedWeatherTerms(weather)
                 + (IF request.avoid_closures
                    THEN ClosurePart(road_closures, route[Len(route)]) ELSE 0)
    /\ (Returned /\ Len(request.destinations) > 0 /\ request.optimize_for_weather
          /\ weather.visibility < 5000) =>
          \A r \in route_result : r.weather_penalty > 0

\* C10: for a route of k > 0 destinations total_penalty is the sum of the
\* penalties of its legs less k+1, the number of waypoints; with no penalised
\* leg it is -1.
C10_PenaltyLessRouteLength ==
    (Returned /\ Len(request.destinations) > 0) =>
        \A r \in route_result :
            /\ r.total_penalty
                 = 100 * SumPenalties(r.nodes) - 1000 * (Len(request.destinations) + 1)
            /\ (\A i \in 2..Len(r.nodes) : LegPenalty(r.nodes[i]) = 10)
                  => r.total_penalty = -1000

\* C10 witness: a finished route of two unpenalised legs reporting -1
C10_Witness ==
    /\ Returned
    /\ Len(request.destinations) = 2
    /\ \E r \in route_result :
          /\ \A i \in 2..Len(r.nodes) : LegPenalty(r.nodes[i]) = 10
          /\ r.total_penalty = -1000

\* C11: for each chosen leg, closure_avoided goes up by one exactly when the
\* leg's penalty is above 2.0 and the closure list is not empty; otherwise,
\* exactly when the penalty is above 1.0 and at most 2.0, the penalty less 1.0
\* is added to weather_penalty; no leg changes both counters and a leg of
\* penalty exactly 1.0 changes neither; so closure_avoided of a returned route
\* is at most the number of destinations, and 0 when avoid_closures is off
C11_LegTracking ==
    /\ [][(Stepping \/ (pc = "leg" /\ pc' = "legdone")) =>
            LET p == best'.best_penalty
                dc == closure_avoidance_count' - closure_avoidance_count
                dw == weather_penalty_total' - weather_penalty_total
                closure_leg == p > 20 /\ road_closures # <<>>
            IN  /\ dc = IF closure_leg THEN 1 ELSE 0
                /\ dw = IF ~closure_leg /\ p > 10 /\ p <= 20 THEN p - 10 ELSE 0
                /\ ~(dc # 0 /\ dw # 0)
                /\ p = 10 => (dc = 0 /\ dw = 0)]_vars
    /\ [](Returned =>
            \A r \in route_result :
                /\ r.closure_avoided <= Len(request.destinations)
                /\ ~request.avoid_closures => r.closure_avoided = 0)

\* a leg of penalty 1.5 has been tracked: 0.5 went to weather_penalty and
\* nothing to closure_avoided
C11_Witness ==
    /\ pc = "legdone"
    /\ best.best_penalty = 15
    /\ weather_penalty_total = 5
    /\ closure_avoidance_count = 0
    /\ road_closures # <<>>

\* C12 (as stated): for every non-empty route estimated_duration equals
\* (totalDistance / adjustedSpeed) * 60 with adjustedSpeed = 50 / (1 +
\* totalPenaltyAccumulated / routeLength), routeLength counting the origin.
C12_DurationIsExact ==
    (Returned /\ Len(request.destinations) > 0) =>
        \A r \in route_result :
            LET n == Len(request.destinations) + 1
            IN  r.estimated_duration * DurationDen(n)
                  = DurationNum(SumDistances(r.nodes), SumPenalties(r.nodes), n)

\* C12 (amended): estimated_duration is that quotient rounded to two
\* decimals (a multiple of a hundredth no further than half a hundredth from
\* it); adjustedSpeed = 50 * routeLength / (routeLength + penalties) is
\* positive and at most 50, nothing is divided by zero, and the quotient is
\* never less than totalDistance / 50 * 60.
C12_DurationIsRounded ==
    (Returned /\ Len(request.destinations) > 0) =>
        \A r \in route_result :
            LET n == Len(request.destinations) + 1
                d == SumDistances(r.nodes)
                p == SumPenalties(r.nodes)
                num == d * 3 * (10 * n + p)
                den == 25 * n
            IN  /\ n = Len(r.nodes)
                /\ 10 * n + p > 0
                /\ 50 * 10 * n > 0
                /\ 50 * 10 * n <= 50 * (10 * n + p)
                /\ den > 0
                /\ r.estimated_duration % 10 = 0
                /\ 2 * Abs(r.estimated_duration * den - num) <= 10 * den
                /\ num >= d * 3 * 10 * n

\* C12 witness: a finished route with a penalised leg whose duration is not
\* a whole number of hundredths of a minute
C12_Witness ==
    /\ Returned
    /\ Len(request.destinations) = 2
    /\ \E r \in route_result :
          /\ \E i \in 2..Len(r.nodes) : LegPenalty(r.nodes[i]) > 10
          /\ r.estimated_duration * DurationDen(3)
                # DurationNum(SumDistances(r.nodes), SumPenalties(r.nodes), 3)
          /\ r.estimated_duration > 0

\* C13: calculate_route_risk returns 0.1, plus 0.2 if avoid_closures, plus 0.1
\* if optimize_weather, plus the smaller of 0.3 and 0.05 per waypoint, kept
\* within 0 and 1 and rounded to three decimals: a function of the two flags
\* and the number of waypoints, whatever the coordinates; with both flags off
\* it is 0.1 plus the smaller of 0.3 and 0.05 per waypoint.
C13_RiskFormula ==
    risk_pc = "returned" =>
        \A v \in risk_result :
            LET n == Len(risk_args.nodes)
                length_term == IF n * 50 < 300 THEN n * 50 ELSE 300
                sum == 100 + (IF risk_args.avoid_closures THEN 200 ELSE 0)
                           + (IF risk_args.optimize_weather THEN 100 ELSE 0)
                           + length_term
            IN  /\ v = Max(0, Min(1000, sum))
                /\ (~risk_args.avoid_closures /\ ~risk_args.optimize_weather)
                      => v = 100 + length_term

\* C13 witness: seven waypoints over two different points with both flags
\* off: the length term is held at 0.3 and the score is 0.4
C13_Witness ==
    /\ risk_pc = "returned"
    /\ Len(risk_args.nodes) = 7
    /\ risk_args.nodes[1] # risk_args.nodes[2]
    /\ ~risk_args.avoid_closures /\ ~risk_args.optimize_weather
    /\ risk_result = {400}

\* C14: the risk score lies in [0, 1] for every combination of the two flags
\* and every number of waypoints, the one-waypoint route and long routes
\* included.
C14_RiskInUnitInterval ==
    risk_pc = "returned" => \A v \in risk_result : 0 <= v /\ v <= 1000

\* C14 witness: the longest route with both flags on has been scored
C14_Witness ==
    /\ risk_pc = "returned"
    /\ Len(risk_args.nodes) = MaxNodes
    /\ risk_args.avoid_closures /\ risk_args.optimize_weather
    /\ risk_result # {}

\* C15: the rule-based delay is the sum of a visibility term (40 * (1 -
\* v / 2000) below 2000, else 20 * (1 - v / 5000) below 5000, else 0), a wind
\* term (15 above 15, else 10 above 10), a precipitation term (25 above 10,
\* else 10 above 2), a temperature term (20 below 0, else 10 above 30) and
\* traffic_load * 30, multiplied by road_type_factor and kept within [0, 120];
\* each factor adds one tier at most; visibility 1000, wind 0, precipitation
\* 0, temperature 15, traffic 0 and factor 1.0 give exactly 20.
C15_RuleBasedDelay ==
    delay_pc = "returned" =>
        \A r \in delay_result :
            LET f == delay_args
                v == f.visibility
                \* thousandths of a minute
                visibility_term == IF v < 2000 THEN (40000 * (2000 - v)) \div 2000
                                   ELSE IF v < 5000 THEN (20000 * (5000 - v)) \div 5000
                                   ELSE 0
                wind_term == CASE f.wind_speed > 150 -> 15000
                               [] f.wind_speed > 100 /\ f.wind_speed <= 150 -> 10000
                               [] OTHER -> 0
                precipitation_term == CASE f.precipitation > 100 -> 25000
                                        [] f.precipitation > 20 /\ f.precipitation <= 100 -> 10000
                                        [] OTHER -> 0
                temperature_term == CASE f.temperature < 0 -> 20000
                                      [] f.temperature > 300 -> 10000
                                      [] OTHER -> 0
                sum == visibility_term + wind_term + precipitation_term
                       + temperature_term + f.traffic_load * 3000
                product == sum * f.road_type_factor
                clamped == IF product < 0 THEN 0
                           ELSE IF product > 1200000 THEN 1200000 ELSE product
            IN  /\ r.kind = "value"
                /\ r.value = clamped
                /\ wind_term \in {0, 10000, 15000}
                /\ precipitation_term \in {0, 10000, 25000}
                /\ temperature_term \in {0, 10000, 20000}
                /\ (f = [visibility |-> 1000, wind_speed |-> 0, precipitation |-> 0,
                         temperature |-> 150, traffic_load |-> 0,
                         road_type_factor |-> 10]) => r.value = 200000

\* C15 witness: the scenario of the claim has been computed and gave 20
C15_Witness ==
    /\ delay_pc = "returned"
    /\ delay_args = [visibility |-> 1000, wind_speed |-> 0, precipitation |-> 0,
                     temperature |-> 150, traffic_load |-> 0, road_type_factor |-> 10]
    /\ delay_result = {Value(200000)}

\* C16: for every feature vector with the six keys, negative visibility,
\* traffic_load or road_type_factor included, the rule-based delay lies in
\* [0, 120].
C16_DelayWithinBounds ==
    delay_pc = "returned" =>
        \A r \in delay_result :
            r.kind = "value" /\ 0 <= r.value /\ r.value <= 1200000

\* C16 witness: a negative road_type_factor on a positive sum, and a negative
\* visibility, held at 0
C16_Witness ==
    /\ delay_pc = "returned"
    /\ delay_args.road_type_factor < 0
    /\ delay_args.visibility < 0
    /\ delay_args.traffic_load < 0
    /\ delay_result = {Value(0)}

\* line 53: the label of a training sample
TrainingLabel(sample) == calculate_delay_from_factors(sample)

\* C17: predict on a predictor whose weights are None (just constructed, or
\* after a load that failed, with no training) gives what the rule-based
\* function that labels the training data gives for the same features.
C17_FallbackIsRuleBased ==
    (p_pc = "predicted" /\ predictor.weights = {}) =>
        p_result = {TrainingLabel(p_features)}

\* C17 witness: an untrained predictor whose file cannot be loaded has
\* answered the forecast handler's features with the rule-based 9 minutes
C17_Witness ==
    /\ p_pc = "predicted"
    /\ predictor.weights = {}
    /\ artifact \in {Missing, Corrupt}
    /\ p_features \in FullFeatures
    /\ p_result = {Value(90000)}

\* C18: a predict call whose features lack one of the six keys does not end
\* in an error, with or without trained weights: it returns a delay.
C18_MissingKeyIsRecovered ==
    (p_pc = "predicted" /\ \E k \in FeatureKeys : k \notin DOMAIN p_features) =>
        \A r \in p_result : r.kind = "value"

\* C19: with weights and bias loaded and all six keys present, predict
\* returns max(0, bias + sum of weights[i] * features[feature_names[i]]); a
\* value returned by predict, trained or not, is never negative.
C19_PredictionFormula ==
    p_pc = "predicted" =>
        \A r \in p_result :
            /\ (/\ predictor.weights # {}
                /\ predictor.bias # {}
                /\ FeatureKeys \subseteq DOMAIN p_features)
               => \E w \in predictor.weights : \E b \in predictor.bias :
                     LET names == predictor.feature_names
                         sum == b + w[1] * p_features[names[1]]
                                  + w[2] * p_features[names[2]]
                                  + w[3] * p_features[names[3]]
                                  + w[4] * p_features[names[4]]
                                  + w[5] * p_features[names[5]]
                                  + w[6] * p_features[names[6]]
                     IN  r = Value(IF sum > 0 THEN sum ELSE 0)
            /\ r.kind = "value" => r.value >= 0

\* C19 witness: a trained predictor whose sum for a clear day on a slow road
\* is negative has returned 0
C19_Witness ==
    /\ p_pc = "predicted"
    /\ predictor = train(NewPredictor)
    /\ FeatureKeys \subseteq DOMAIN p_features
    /\ TrainedBias + Dot(<<-13, 1019, 1018, -335, 29165, 47374>>,
                         [i \in 1..6 |-> p_features[FeatureNames[i]]]) < 0
    /\ p_result = {Value(0)}

\* the position of step x in the trace of the current request, 0 if absent
TracePos(x) ==
    IF \E i \in 1..Len(fc_trace) : fc_trace[i] = x
    THEN CHOOSE i \in 1..Len(fc_trace) : fc_trace[i] = x
    ELSE 0

\* C20: for a predictor obtained through get_delays_predictor, when the file
\* was missing or could not be loaded, train and then save_model have both
\* completed before the predictor answers predict; a served prediction comes
\* from a predictor whose weights are not None, and at that time the file
\* exists on disk.
C20_TrainedAndSavedBeforeServing ==
    TracePos("predict") > 0 =>
        /\ predictor.weights # {}
        /\ artifact.kind = "pickle"
        /\ TracePos("load_failed") > 0 =>
              /\ TracePos("load_failed") < TracePos("train")
              /\ TracePos("train") < TracePos("save")
              /\ TracePos("save") < TracePos("predict")
              /\ artifact = save_model(predictor)

\* C20 witness: a request that found no loadable file has trained, saved and
\* then answered with a prediction
C20_Witness ==
    /\ fc_trace = <<"construct", "load_failed", "train", "save", "predict">>
    /\ \E r \in fc_response : r.success /\ r.data.prediction.confidence = 95

\* C21: the load-or-train-then-persist step runs once per process: whatever
\* the order of the forecast requests of a process that started with no file
\* at model_path, it runs load_model once at most and trains once at most
\* (requests of one process are handled one at a time, so the write of the
\* file and its reading are never under way together).
C21_LoadOrTrainOnce ==
    (fc_stats # <<>> /\ fc_stats.start = "missing") =>
        fc_stats.loads <= 1 /\ fc_stats.trainings <= 1

\* C22: predict, on the trained path and on the fallback paths, and
\* save_model leave weights, bias and feature_names of the predictor as they
\* were, and predict leaves the file at model_path as it was.
C22_ParametersReadOnly ==
    [][/\ p_pc' \in {"predicted", "saved", "save_failed"} => predictor' = predictor
       /\ p_pc' = "predicted" => artifact' = artifact]_vars

\* C22 witness: a trained predictor has answered a features dict lacking a
\* key through its fallback and still holds its weights
C22_Witness ==
    /\ p_pc = "predicted"
    /\ predictor = train(NewPredictor)
    /\ \E r \in p_result : r.kind = "KeyError"

\* C23: after any sequence of construct, load_model, train, save_model and
\* predict, the predictor pairs weights with feature values in the fixed
\* order visibility, wind_speed, precipitation, temperature, traffic_load,
\* road_type_factor, whatever the loaded file holds.
C23_FeatureOrderFixed ==
    p_pc # "off" => predictor.feature_names = FeatureNames

\* C30: a load_model that returns False (file missing, not a pickle, or
\* lacking one of the keys weights, bias, feature_names) leaves weights, bias
\* and feature_names of the predictor as they were before the call.
C30_FailedLoadChangesNothing ==
    [][p_pc' = "load_failed" => predictor' = predictor]_vars

\* C24: every closure record optimize_route hands to route construction is
\* active at request time (start_time <= now, and estimated_end_time null or
\* >= now), so a closure not yet started or already ended is never among
\* them; with avoid_closures false no closure is fetched or used.
C24_OnlyActiveClosures ==
    (caller = "handler" /\ pc \in {"loop", "done"} /\ Len(request.destinations) > 0) =>
        /\ \A i \in 1..Len(road_closures) :
              \E row \in db_closures :
                  /\ row.id = road_closures[i].id
                  /\ row.coordinates = road_closures[i].coordinates
                  /\ row.start_time <= now
                  /\ \A e \in row.estimated_end_time : e >= now
        /\ \A row \in db_closures :
              (row.start_time > now \/ \E e \in row.estimated_end_time : e < now)
                  => \A i \in 1..Len(road_closures) : road_closures[i].id # row.id
        /\ ~request.avoid_closures => road_closures = <<>>

\* C24 witness: with all four rows in the table the handler has built a route
\* from the two active ones, one of them starting and ending this moment
C24_Witness ==
    /\ caller = "handler"
    /\ Returned
    /\ request.avoid_closures
    /\ db_closures = ClosureRows
    /\ Len(road_closures) = 2
    /\ \E row \in db_closures :
          row.id = road_closures[2].id /\ row.start_time = now
              /\ row.estimated_end_time = {now}

\* C26: a successful answer of optimize_route carries the waypoints, the
\* distance, the duration, total_penalty, the closure-avoided count, the
\* weather penalty total, the risk score and the algorithm id, and its data
\* has an "optimization" entry and a "route_details" entry.
C26_ResponseHasAllMetrics ==
    (pc = "done" /\ caller = "handler") =>
        \A r \in response :
            r.status_code = 200 =>
                /\ {"optimization", "route_details"} \subseteq DOMAIN r.data
                /\ \A m \in {"nodes", "total_distance", "estimated_duration",
                              "total_penalty", "closure_avoided", "weather_penalty",
                              "risk_score"} :
                       m \in DOMAIN r.data.optimization \/ m \in DOMAIN r.data
                /\ "algorithm_used" \in DOMAIN r.data

\* C28: optimize_simple_route leaves its arguments as they were: while it
\* runs, origin and the caller's destinations list keep their elements in
\* their order, and the road_closures list is not changed.
C28_InputsUnchanged ==
    [][/\ pc \in {"idle", "loop"} => request' = request
       /\ pc = "loop" => road_closures' = road_closures]_vars

\* C28 witness: a call with three destinations and a closure list has
\* returned a route of four waypoints; the caller's list still has three
C28_Witness ==
    /\ Returned
    /\ caller = "direct"
    /\ Len(request.destinations) = 3
    /\ road_closures # <<>>
    /\ \E r \in route_result : Len(r.nodes) = 4

\* C29: over any sequence of optimize_route requests every stored route gets
\* a route_id of its own, so a request with destinations is answered with
\* success again when it is repeated with the same destination count and
\* origin latitude.
C29_RepeatedRequestSucceeds ==
    (pc = "done" /\ caller = "handler" /\ Len(request.destinations) > 0) =>
        \A r \in response : r.status_code = 200

ServiceRequests ==
    {[method |-> "GET", path |-> "/api/v1/forecast/health"],
     [method |-> "POST", path |-> "/api/v1/forecast/predict"],
     [method |-> "GET", path |-> "/api/v1/optimize/health"],
     [method |-> "POST", path |-> "/api/v1/optimize/route"],
     [method |-> "GET", path |-> "/api/v1/optimize/algorithms"]}

\* C27: a request to one of the five forecast and optimize endpoints is
\* routed to its handler and answered with status 200 and success = true.
C27_ForecastAndOptimizeServed ==
    app_request \in ServiceRequests =>
        \A r \in app_response :
            /\ r.status_code = 200
            /\ "success" \in DOMAIN r.body
            /\ r.body.success

====
